---- MODULE Spec2Model ----
(***************************************************************************)
(* A model of src/main.py: the text-to-diagram converter.                  *)
(*                                                                         *)
(* Text (paths, titles, error messages) is a sequence of one-character     *)
(* strings, image payloads are sequences of byte values 0..255, so that     *)
(* rsplit, slugify, the magic-byte sniffing and the retry-hint parsing are  *)
(* computed the way the code computes them.                                 *)
(***************************************************************************)
EXTENDS Integers, Sequences, FiniteSets, TLC

VARIABLES
    mode,         \* "call": one generate_diagram call; "single", "batch": a run of main
    apiKey,       \* os.getenv("GOOGLE_API_KEY") is set
    input_file,   \* main: the path of the input file
    input_exists, \* main: input_file.exists()
    input_text,   \* main: the text read from the input file
    mpc,          \* position in main
    exit_code,    \* the exit status of the process, -1 while it runs
    workflows,    \* batch: the titles of the extracted workflows, in source order
    output_dir,   \* batch: the output_dir argument
    bpc,          \* position in generate_all_workflows
    i,            \* batch: 1-based index of the current workflow
    generated,    \* batch: the list of generated paths
    failed,       \* batch: the list of failed titles
    attempted,    \* batch: indices for which generate_diagram was called, in order
    nDelays,      \* batch: time.sleep(REQUEST_DELAY) calls completed
    dirs,         \* directories created by mkdir
    gpc,          \* position in generate_diagram
    output_path,  \* generate_diagram: the output_path argument
    retries,      \* generate_diagram: the retries argument
    attempt,      \* generate_diagram: the loop variable
    image_data,   \* generate_diagram: the local image_data
    wait_time,    \* generate_diagram: the local wait_time
    lastNonEmpty, \* the last non-empty payload the current attempt's stream carried
    nRequests,    \* generate_content_stream calls issued by the current call
    outcomes,     \* how each attempt of the current call ended, in order
    backoffs,     \* durations of the time.sleep(wait_time) calls of the current call
    nWrites,      \* files opened for writing by the current call
    report,       \* the last message printed
    retKind,      \* how the current call ended: "pending", "none", "path", "raise"
    retPath,      \* the returned path when retKind = "path"
    files,        \* the file system: path -> bytes
    fn,           \* the function applied on its own, "none" in a run of the program
    fnPc,         \* "call" before it is applied, "ret" after
    fnArg,        \* its argument
    fnRes         \* its result

fnVars == <<fn, fnPc, fnArg, fnRes>>

\* what generate_diagram and generate_all_workflows leave alone
outerVars == <<input_file, input_exists, input_text, mpc, exit_code, fnVars>>

vars == <<outerVars, mode, apiKey, workflows, output_dir, bpc, i, generated, failed,
          attempted, nDelays, dirs, gpc, output_path, retries, attempt,
          image_data, wait_time, lastNonEmpty, nRequests, outcomes, backoffs,
          nWrites, report, retKind, retPath, files>>

batchVars == <<workflows, output_dir, bpc, i, generated, failed, attempted,
               nDelays, dirs>>

---------------------------------------------------------------------------
(* Bounds of the model.                                                    *)

MaxRetries == 3
MaxWorkflows == 2

(* Program constants.                                                      *)

REQUEST_DELAY == 60
MAX_RETRIES == 3
DefaultWait == 60
SafetyMargin == 5
RateLimitCode == 429

---------------------------------------------------------------------------
(* Text helpers: Python str operations on sequences of characters.         *)

Min(a, b) == IF a < b THEN a ELSE b

\* s[a:b] of Python, 0-based, clipped to the sequence
Slice(s, a, b) == SubSeq(s, Min(a, Len(s)) + 1, Min(b, Len(s)))

\* sub in s
Contains(s, sub) ==
    \E k \in 0..(Len(s) - Len(sub)) : SubSeq(s, k + 1, k + Len(sub)) = sub

UpperChars == <<"A","B","C","D","E","F","G","H","I","J","K","L","M",
                "N","O","P","Q","R","S","T","U","V","W","X","Y","Z">>
LowerChars == <<"a","b","c","d","e","f","g","h","i","j","k","l","m",
                "n","o","p","q","r","s","t","u","v","w","x","y","z">>
DigitChars == <<"0","1","2","3","4","5","6","7","8","9">>

Range(s) == {s[k] : k \in DOMAIN s}

LowerChar(c) ==
    IF \E k \in DOMAIN UpperChars : UpperChars[k] = c
    THEN LowerChars[CHOOSE k \in DOMAIN UpperChars : UpperChars[k] = c]
    ELSE c

\* str.lower()
Lower(s) == [k \in DOMAIN s |-> LowerChar(s[k])]

IsSpace(c) == c \in {" ", "\t", "\n", "\r"}
IsDigit(c) == c \in Range(DigitChars)
IsSlugChar(c) == c \in Range(LowerChars) \cup Range(DigitChars)

DigitValue(c) == (CHOOSE k \in DOMAIN DigitChars : DigitChars[k] = c) - 1

\* str.strip(ch)
RECURSIVE LStrip(_, _)
LStrip(s, ch) ==
    IF s # <<>> /\ Head(s) = ch THEN LStrip(Tail(s), ch) ELSE s

RECURSIVE RStrip(_, _)
RStrip(s, ch) ==
    IF s # <<>> /\ s[Len(s)] = ch THEN RStrip(SubSeq(s, 1, Len(s) - 1), ch) ELSE s

Strip(s, ch) == RStrip(LStrip(s, ch), ch)

\* decimal digits of n >= 0
RECURSIVE Decimal(_)
Decimal(n) ==
    IF n < 10 THEN <<DigitChars[n + 1]>>
    ELSE Decimal(n \div 10) \o <<DigitChars[(n % 10) + 1]>>

\* f"{n:02d}"
Pad2(n) == IF n < 10 THEN <<"0">> \o Decimal(n) ELSE Decimal(n)

---------------------------------------------------------------------------
(* Character-sequence literals.                                            *)

DotPng == <<".", "p", "n", "g">>
DotJpg == <<".", "j", "p", "g">>
DotWebp == <<".", "w", "e", "b", "p">>
DotGif == <<".", "g", "i", "f">>
RetryDelayKey == <<"r","e","t","r","y","D","e","l","a","y">>
RetryInText == <<"r","e","t","r","y"," ","i","n"," ">>

(* Byte-sequence literals: the magic numbers of get_image_extension.       *)

PngSig == <<137, 80, 78, 71, 13, 10, 26, 10>>
JpgSig == <<255, 216>>
RiffSig == <<82, 73, 70, 70>>
WebpSig == <<87, 69, 66, 80>>
Gif87 == <<71, 73, 70, 56, 55, 97>>
Gif89 == <<71, 73, 70, 56, 57, 97>>

\* Python's None where bytes are expected (no byte is negative)
NoneVal == <<-1>>

\* mutant of Truthy: the test is "is not None"
Truthy_NotNone(d) == d # NoneVal

\* truthiness of an Optional[bytes]
Truthy(d) == d # NoneVal /\ d # <<>>

---------------------------------------------------------------------------
(* get_image_extension, main.py:52-62                                      *)

\* mutant of get_image_extension: RIFF alone is taken for WEBP
get_image_extension_RiffOnly(data) ==
    IF Slice(data, 0, 8) = PngSig THEN DotPng
    ELSE IF Slice(data, 0, 2) = JpgSig THEN DotJpg
    ELSE IF Slice(data, 0, 4) = RiffSig THEN DotWebp
    ELSE IF Slice(data, 0, 6) \in {Gif87, Gif89} THEN DotGif
    ELSE DotPng

get_image_extension(data) ==
    IF Slice(data, 0, 8) = PngSig THEN DotPng
    ELSE IF Slice(data, 0, 2) = JpgSig THEN DotJpg
    ELSE IF Slice(data, 0, 4) = RiffSig /\ Slice(data, 8, 12) = WebpSig THEN DotWebp
    ELSE IF Slice(data, 0, 6) \in {Gif87, Gif89} THEN DotGif
    ELSE DotPng

---------------------------------------------------------------------------
(* slugify, main.py:164-171                                                *)

\* length of the whitespace run of s that starts at 0-based position k
RECURSIVE WsRun(_, _)
WsRun(s, k) ==
    IF k < Len(s) /\ IsSpace(s[k + 1]) THEN 1 + WsRun(s, k + 1) ELSE 0

\* mutant of HowToPrefixLen: the match is case-sensitive
HowToPrefixLen_CaseSensitive(s) ==
    LET w1 == WsRun(s, 3)
        w2 == WsRun(s, 3 + w1 + 2)
    IN  IF /\ Slice(s, 0, 3) = <<"h", "o", "w">>
           /\ w1 >= 1
           /\ Slice(s, 3 + w1, 3 + w1 + 2) = <<"t", "o">>
           /\ w2 >= 1
        THEN 3 + w1 + 2 + w2
        ELSE 0

\* length of the match of ^how\s+to\s+ (IGNORECASE) at the start of s, 0 if none
HowToPrefixLen(s) ==
    LET w1 == WsRun(s, 3)
        w2 == WsRun(s, 3 + w1 + 2)
    IN  IF /\ Lower(Slice(s, 0, 3)) = <<"h", "o", "w">>
           /\ w1 >= 1
           /\ Lower(Slice(s, 3 + w1, 3 + w1 + 2)) = <<"t", "o">>
           /\ w2 >= 1
        THEN 3 + w1 + 2 + w2
        ELSE 0

\* re.sub(r'[^a-z0-9]+', '_', s): every maximal run becomes one underscore
RECURSIVE CollapseNonSlug(_, _)
CollapseNonSlug(s, inRun) ==
    IF s = <<>> THEN <<>>
    ELSE IF IsSlugChar(Head(s)) THEN <<Head(s)>> \o CollapseNonSlug(Tail(s), FALSE)
    ELSE IF inRun THEN CollapseNonSlug(Tail(s), TRUE)
    ELSE <<"_">> \o CollapseNonSlug(Tail(s), TRUE)

slugify(text) ==
    LET t1 == Slice(text, HowToPrefixLen(text), Len(text))
        t2 == CollapseNonSlug(Lower(t1), FALSE)
    IN  Strip(t2, "_")

---------------------------------------------------------------------------
(* Path handling of generate_diagram, main.py:106-107                      *)

\* s.rfind(ch) + 1: the 1-based position of the last ch, 0 if there is none
LastIndexOf(s, ch) ==
    IF \E k \in DOMAIN s : s[k] = ch
    THEN CHOOSE k \in DOMAIN s : s[k] = ch /\ \A m \in DOMAIN s : s[m] = ch => m <= k
    ELSE 0

\* output_path.rsplit('.', 1)[0] if '.' in output_path else output_path
BasePath(path) ==
    IF Contains(path, <<".">>) THEN SubSeq(path, 1, LastIndexOf(path, ".") - 1)
    ELSE path

FinalPath(path, data) == BasePath(path) \o get_image_extension(data)

(* Path handling of generate_all_workflows, main.py:194-204                *)

\* str(Path(d)) for a relative directory name: trailing slashes and a leading
\* "./" are dropped
RECURSIVE DropDotSlash(_)
DropDotSlash(d) ==
    IF Len(d) >= 2 /\ d[1] = "." /\ d[2] = "/" THEN DropDotSlash(LStrip(Tail(d), "/"))
    ELSE d

PathStr(d) ==
    LET n == DropDotSlash(RStrip(d, "/"))
    IN  IF n = <<>> THEN <<".">> ELSE n

\* f"{i:02d}_{slugify(title)}"
Filename(n, title) == Pad2(n) \o <<"_">> \o slugify(title)

\* str(Path(output_dir) / filename)
Filepath(d, n, title) ==
    IF PathStr(d) = <<".">> THEN Filename(n, title)
    ELSE PathStr(d) \o <<"/">> \o Filename(n, title)

---------------------------------------------------------------------------
(* Retry hint of generate_diagram, main.py:120-125                         *)

\* the digits of s starting at 0-based position k, as a number
RECURSIVE DigitsValue(_, _, _)
DigitsValue(s, k, acc) ==
    IF k < Len(s) /\ IsDigit(s[k + 1])
    THEN DigitsValue(s, k + 1, acc * 10 + DigitValue(s[k + 1]))
    ELSE acc

\* mutant of RetryInMatches: the match is case-sensitive
RetryInMatches_CaseSensitive(s) ==
    {k \in 0..Len(s) :
        /\ Slice(s, k, k + 9) = RetryInText
        /\ k + 9 < Len(s)
        /\ IsDigit(s[k + 10])}

\* 0-based positions where r'retry in (\d+)' (IGNORECASE) matches
RetryInMatches(s) ==
    {k \in 0..Len(s) :
        /\ Lower(Slice(s, k, k + 9)) = RetryInText
        /\ k + 9 < Len(s)
        /\ IsDigit(s[k + 10])}

WaitTime(text) ==
    IF Contains(text, RetryDelayKey) /\ RetryInMatches(text) # {}
    THEN LET k == CHOOSE m \in RetryInMatches(text) :
                     \A n \in RetryInMatches(text) : m <= n
         IN  DigitsValue(text, k + 9, 0) + SafetyMargin
    ELSE DefaultWait

---------------------------------------------------------------------------
(* extract_workflows, main.py:140-161                                      *)
(*                                                                         *)
(* The pattern is                                                          *)
(*   ###\s*\*?\*?\s*(How to[^*\n]+)\*?\*?\s*\n(.*?)(?=\n###|\n---|\Z)       *)
(* with DOTALL and IGNORECASE.  Its lazy body always finds an end (at the  *)
(* latest \Z), so a match is decided by the first way, in backtracking     *)
(* order, of matching the heading up to the \n.                            *)

\* mutant of HashMark: two hashes open a heading
HashMark_Two == <<"#", "#">>

HashMark == <<"#", "#", "#">>
HowTo == <<"h", "o", "w", " ", "t", "o">>
NextHeading == <<"\n", "#", "#", "#">>
RuleMark == <<"\n", "-", "-", "-">>

\* str.strip()
RECURSIVE LStripSpace(_)
LStripSpace(s) ==
    IF s # <<>> /\ IsSpace(Head(s)) THEN LStripSpace(Tail(s)) ELSE s

RECURSIVE RStripSpace(_)
RStripSpace(s) ==
    IF s # <<>> /\ IsSpace(s[Len(s)])
    THEN RStripSpace(SubSeq(s, 1, Len(s) - 1)) ELSE s

StripSpace(s) == RStripSpace(LStripSpace(s))

\* \*?\*? at 0-based position k: the number of stars taken
StarRun(s, k) ==
    IF k < Len(s) /\ s[k + 1] = "*"
    THEN IF k + 1 < Len(s) /\ s[k + 2] = "*" THEN 2 ELSE 1
    ELSE 0

\* [^*\n]+ at 0-based position k: the length of the run
RECURSIVE TitleRun(_, _)
TitleRun(s, k) ==
    IF k < Len(s) /\ s[k + 1] \notin {"*", "\n"} THEN 1 + TitleRun(s, k + 1) ELSE 0

\* ###\s*\*?\*?\s* at p: the position after it
TitleStart(s, p) ==
    LET a == p + Len(HashMark) + WsRun(s, p + Len(HashMark))
        b == a + StarRun(s, a)
    IN  b + WsRun(s, b)

\* (How to[^*\n]+) from c: the position after the title
TitleEnd(s, c) == c + Len(HowTo) + TitleRun(s, c + Len(HowTo))

\* \*?\*?\s*\n after the title: greedy \s* gives back up to the last \n of
\* the whitespace run; the 0-based positions of the newlines in that run
HeadingNewlines(s, e) ==
    LET w == e + StarRun(s, e)
    IN  {q \in w..(w + WsRun(s, w) - 1) : s[q + 1] = "\n"}

\* the heading part of the pattern matches at 0-based position p
HeadingAt(s, p) ==
    LET c == TitleStart(s, p)
    IN  /\ Slice(s, p, p + Len(HashMark)) = HashMark
        /\ Lower(Slice(s, c, c + Len(HowTo))) = HowTo
        /\ TitleRun(s, c + Len(HowTo)) >= 1
        /\ HeadingNewlines(s, TitleEnd(s, c)) # {}

\* mutant of ContentEnd: a horizontal rule does not end the body
RECURSIVE ContentEnd_NoRule(_, _)
ContentEnd_NoRule(s, q) ==
    IF q >= Len(s) \/ Slice(s, q, q + 4) = NextHeading THEN q
    ELSE ContentEnd_NoRule(s, q + 1)

\* (.*?)(?=\n###|\n---|\Z) from q: the position where the body ends
RECURSIVE ContentEnd(_, _)
ContentEnd(s, q) ==
    IF q >= Len(s) \/ Slice(s, q, q + 4) \in {NextHeading, RuleMark} THEN q
    ELSE ContentEnd(s, q + 1)

\* the match at p: its two groups and where it ends
MatchAt(s, p) ==
    LET c == TitleStart(s, p)
        e == TitleEnd(s, c)
        nl == HeadingNewlines(s, e)
        q == (CHOOSE m \in nl : \A n \in nl : n <= m) + 1
        z == ContentEnd(s, q)
    IN  [title |-> Slice(s, c, e), content |-> Slice(s, q, z), end |-> z]

\* re.findall: the non-overlapping matches from pos on, left to right
RECURSIVE FindAll(_, _)
FindAll(s, pos) ==
    LET starts == {p \in pos..Len(s) : HeadingAt(s, p)}
    IN  IF starts = {} THEN <<>>
        ELSE LET first == CHOOSE p \in starts : \A n \in starts : p <= n
                 found == MatchAt(s, first)
             IN  <<found>> \o FindAll(s, found.end)

\* main.py:152-159: strip both groups, keep the sections with content
RECURSIVE Workflows(_)
Workflows(ms) ==
    IF ms = <<>> THEN <<>>
    ELSE LET title == Strip(StripSpace(Head(ms).title), "*")
             content == StripSpace(Head(ms).content)
         IN  (IF content # <<>>
              THEN <<[title |-> title,
                      content |-> title \o <<"\n", "\n">> \o content]>>
              ELSE <<>>) \o Workflows(Tail(ms))

extract_workflows(s) == Workflows(FindAll(s, 0))

\* the titles of a list of workflows
TitlesOf(ws) == [k \in DOMAIN ws |-> ws[k].title]

---------------------------------------------------------------------------
(* Path handling of main, main.py:250, 256                                 *)

\* Path(p).stem: the last component without its last suffix
Stem(p) ==
    LET name == SubSeq(p, LastIndexOf(p, "/") + 1, Len(p))
        dot == LastIndexOf(name, ".")
    IN  IF dot > 1 /\ dot < Len(name) THEN SubSeq(name, 1, dot - 1) ELSE name

DiagramSuffix == <<"_", "d", "i", "a", "g", "r", "a", "m">>

---------------------------------------------------------------------------
(* The stream loop body of generate_diagram, main.py:100-101             *)

\* a part carries inline_data (hasattr(part, 'inline_data') and part.inline_data)
\* or not; the Blob's data may be empty
PartUpdate(img, part) == IF part.inline THEN part.data ELSE img

---------------------------------------------------------------------------
(* The inputs the model draws from.                                        *)

SeqsUpTo(S, n) == UNION {[1..k -> S] : k \in 0..n}

\* payloads a Blob may carry: a JPEG, a PNG, and no bytes at all
JpgData == JpgSig \o <<255>>
PngData == PngSig
PartData == {<<>>, JpgData, PngData}

Parts ==
    {[inline |-> FALSE, data |-> NoneVal]}
        \cup {[inline |-> TRUE, data |-> d] : d \in PartData}

\* str(e) of a rate-limit error
TextHint == <<"r", "e", "t", "r", "y", "D", "e", "l", "a", "y", ":", " ", "R", "e", "t", "r", "y", " ", "i", "n", " ", "7", "s">>
TextNoKey == <<"r", "e", "t", "r", "y", " ", "i", "n", " ", "9">>
TextKeyOnly == <<"r", "e", "t", "r", "y", "D", "e", "l", "a", "y">>
ErrorTexts == {TextHint, TextNoKey, TextKeyOnly}

\* e.code of a ClientError that is not a rate limit
OtherClientCodes == {400, 403}

\* titles extract_workflows can return: they start with "How to" in any case
Titles == {<<"H", "o", "w", " ", "t", "o", " ", "G", "o">>,
           <<"h", "o", "w", " ", "T", "O", " ", "g", "o", "!">>,
           <<"H", "o", "w", " ", "t", "o", " ", "!">>}

CallPaths == {<<"o", "u", "t", ".", "x", "y", "z">>,
              <<"o", "u", "t">>,
              <<"v", "1", ".", "2", "/", "o", "u", "t">>}

OutputDirs == {<<"o", "u", "t">>,
               <<"m", "y", ".", "d">>,
               <<".", ".", "/", "o">>}

\* the input files of main
InputFiles == {<<"d", "o", "c", ".", "t", "x", "t">>,
               <<"i", "n", "/", "a", ".", "b", ".", "m", "d">>}

\* a document with one section per title: "### <title>", then a one-line body
RECURSIVE SectionsOf(_)
SectionsOf(ts) ==
    IF ts = <<>> THEN <<>>
    ELSE <<"#", "#", "#", " ">> \o Head(ts) \o <<"\n", "x", "\n">>
            \o SectionsOf(Tail(ts))

\* documents without a "How to" heading: another heading, and a heading of
\* two hashes
NotesDoc == <<"#", "#", "#", " ", "N", "o", "t", "e", "s", "\n", "n", "\n">>
TwoHashDoc == <<"#", "#", " ", "H", "o", "w", " ", "t", "o", " ", "G", "o", "\n", "x", "\n">>

\* the texts of the input file
MainDocs ==
    {SectionsOf(ts) : ts \in SeqsUpTo(Titles, MaxWorkflows)}
        \cup {NotesDoc, TwoHashDoc}

---------------------------------------------------------------------------
(* Initial states: a direct generate_diagram call, or a run of main in     *)
(* single-shot or in batch (--auto) mode.                                  *)

CallFresh ==
    /\ attempt = 0
    /\ image_data = NoneVal
    /\ wait_time = 0
    /\ lastNonEmpty = NoneVal
    /\ nRequests = 0
    /\ outcomes = <<>>
    /\ backoffs = <<>>
    /\ nWrites = 0
    /\ report = "none"
    /\ retKind = "pending"
    /\ retPath = <<>>

\* no function is applied on its own
FnOff ==
    /\ fn = "none"
    /\ fnPc = "off"
    /\ fnArg = <<>>
    /\ fnRes = <<>>

\* generate_all_workflows has not started
BatchFresh ==
    /\ workflows = <<>>
    /\ i = 0
    /\ generated = <<>>
    /\ failed = <<>>
    /\ attempted = <<>>
    /\ nDelays = 0

Init ==
    /\ mode \in {"call", "single", "batch"}
    /\ apiKey \in BOOLEAN
    /\ IF mode = "call"
       THEN /\ input_file = <<>>
            /\ input_exists = TRUE
            /\ input_text = <<>>
            /\ mpc = "none"
            /\ output_dir = <<>>
            /\ gpc = "entry"
            /\ output_path \in CallPaths
            /\ retries \in 0..MaxRetries
       ELSE /\ input_exists \in BOOLEAN
            /\ mpc = "start"
            /\ gpc = "idle"
            /\ output_path = <<>>
            /\ retries = 0
            /\ IF mode = "single"
               THEN /\ input_file \in InputFiles
                    /\ input_text = NotesDoc
                    /\ output_dir = <<>>
               ELSE /\ input_file = <<"d", "o", "c", ".", "t", "x", "t">>
                    /\ input_text \in MainDocs
                    /\ output_dir \in OutputDirs
    /\ exit_code = -1
    /\ bpc = "none"
    /\ BatchFresh
    /\ FnOff
    /\ dirs = {}
    /\ CallFresh
    /\ files = <<>>

---------------------------------------------------------------------------
(* generate_diagram, main.py:65-137                                        *)

\* a return statement of generate_diagram
Return(kind, path, msg) ==
    /\ gpc' = "returned"
    /\ retKind' = kind
    /\ retPath' = path
    /\ report' = msg

\* mutant of HasCredential: the check is skipped
HasCredential_Skipped(key) == TRUE

\* main.py:67-68: api_key = os.getenv("GOOGLE_API_KEY") is truthy
HasCredential(key) == key

\* main.py:67-71: the credential check
GD_Entry ==
    /\ gpc = "entry"
    /\ IF HasCredential(apiKey)
       THEN /\ gpc' = "loop"
            /\ UNCHANGED <<retKind, retPath, report>>
       ELSE /\ gpc' = "raised"
            /\ retKind' = "raise"
            /\ report' = "ValueError"
            /\ UNCHANGED retPath
    /\ UNCHANGED <<outerVars, mode, apiKey, output_path, retries, attempt, image_data,
                   wait_time, lastNonEmpty, nRequests, outcomes, backoffs, nWrites,
                   files>>
    /\ UNCHANGED batchVars

\* mutant of InBudget: one attempt more than the budget
InBudget_OneMore(a, r) == a <= r

\* main.py:87: attempt in range(retries)
InBudget(a, r) == a < r

\* main.py:87, 137: the loop is over, return None
GD_LoopExit ==
    /\ gpc = "loop"
    /\ ~InBudget(attempt, retries)
    /\ Return("none", <<>>, report)
    /\ UNCHANGED <<outerVars, mode, apiKey, output_path, retries, attempt, image_data,
                   wait_time, lastNonEmpty, nRequests, outcomes, backoffs, nWrites,
                   files>>
    /\ UNCHANGED batchVars

\* main.py:87-97: one more attempt, the request is issued
GD_Request ==
    /\ gpc = "loop"
    /\ InBudget(attempt, retries)
    /\ gpc' = "stream"
    /\ image_data' = NoneVal
    /\ lastNonEmpty' = NoneVal
    /\ nRequests' = nRequests + 1
    /\ report' = "generating"
    /\ UNCHANGED <<outerVars, mode, apiKey, output_path, retries, attempt, wait_time,
                   outcomes, backoffs, nWrites, retKind, retPath, files>>
    /\ UNCHANGED batchVars

\* main.py:93-98: the stream yields one more chunk; without candidates it
\* is skipped
GD_Chunk ==
    /\ gpc = "stream"
    /\ \E candidates \in BOOLEAN : gpc' = IF candidates THEN "parts" ELSE "stream"
    /\ UNCHANGED <<outerVars, mode, apiKey, output_path, retries, attempt, image_data,
                   wait_time, lastNonEmpty, nRequests, outcomes, backoffs, nWrites,
                   report, retKind, retPath, files>>
    /\ UNCHANGED batchVars

\* main.py:99-101: the next part of chunk.candidates[0].content.parts
GD_Part ==
    /\ gpc = "parts"
    /\ \E part \in Parts :
          /\ image_data' = PartUpdate(image_data, part)
          /\ lastNonEmpty' = IF part.inline /\ part.data # <<>>
                             THEN part.data ELSE lastNonEmpty
    /\ UNCHANGED <<outerVars, mode, apiKey, gpc, output_path, retries, attempt, wait_time,
                   nRequests, outcomes, backoffs, nWrites, report, retKind,
                   retPath, files>>
    /\ UNCHANGED batchVars

\* main.py:99: the parts of the chunk are exhausted
GD_PartsEnd ==
    /\ gpc = "parts"
    /\ gpc' = "stream"
    /\ UNCHANGED <<outerVars, mode, apiKey, output_path, retries, attempt, image_data,
                   wait_time, lastNonEmpty, nRequests, outcomes,
                   backoffs, nWrites, report, retKind, retPath, files>>
    /\ UNCHANGED batchVars

\* mutant of WriteFile: the file is written under the requested name
WriteFile_Requested(path, data) ==
    [p \in DOMAIN files \cup {output_path} |->
        IF p = output_path THEN data ELSE files[p]]

\* open(final_path, 'wb').write(data)
WriteFile(path, data) ==
    [p \in DOMAIN files \cup {path} |-> IF p = path THEN data ELSE files[p]]

\* main.py:103-115: the stream is exhausted
GD_StreamEnd ==
    /\ gpc = "stream"
    /\ IF Truthy(image_data)
       THEN /\ files' = WriteFile(FinalPath(output_path, image_data), image_data)
            /\ nWrites' = nWrites + 1
            /\ Return("path", FinalPath(output_path, image_data), "saved")
       ELSE /\ Return("none", <<>>, "no image")
            /\ UNCHANGED <<files, nWrites>>
    /\ outcomes' = Append(outcomes, "completed")
    /\ UNCHANGED <<outerVars, mode, apiKey, output_path, retries, attempt, image_data,
                   wait_time, lastNonEmpty, nRequests, backoffs>>
    /\ UNCHANGED batchVars

\* mutants of RetryAgain: the budget is one attempt short; the last attempt
\* is slept after as well
RetryAgain_Short(a, r) == a < r - 2
RetryAgain_Always(a, r) == a < r

\* main.py:127: another attempt follows this rate-limited one
RetryAgain(a, r) == a < r - 1

\* main.py:117-132: the call or the stream raises ClientError with code 429
GD_RateLimit ==
    /\ gpc = "stream"
    /\ \E text \in ErrorTexts : wait_time' = WaitTime(text)
    /\ outcomes' = Append(outcomes, "rate limit")
    /\ IF RetryAgain(attempt, retries)
       THEN /\ gpc' = "sleep"
            /\ report' = "rate limited, waiting"
            /\ UNCHANGED <<retKind, retPath>>
       ELSE Return("none", <<>>, "failed after retries")
    /\ UNCHANGED <<outerVars, mode, apiKey, output_path, retries, attempt, image_data,
                   lastNonEmpty, nRequests, backoffs, nWrites, files>>
    /\ UNCHANGED batchVars

\* main.py:129, 87: time.sleep(wait_time), then the next iteration
GD_Sleep ==
    /\ gpc = "sleep"
    /\ backoffs' = Append(backoffs, wait_time)
    /\ attempt' = attempt + 1
    /\ gpc' = "loop"
    /\ UNCHANGED <<outerVars, mode, apiKey, output_path, retries, image_data, wait_time,
                   lastNonEmpty, nRequests, outcomes, nWrites, report, retKind,
                   retPath, files>>
    /\ UNCHANGED batchVars

\* main.py:117-118, 133-135: ClientError with another code
GD_ClientError ==
    /\ gpc = "stream"
    /\ \E code \in OtherClientCodes : code # RateLimitCode
    /\ Return("none", <<>>, "api error")
    /\ outcomes' = Append(outcomes, "client error")
    /\ UNCHANGED <<outerVars, mode, apiKey, output_path, retries, attempt, image_data,
                   wait_time, lastNonEmpty, nRequests, backoffs, nWrites,
                   files>>
    /\ UNCHANGED batchVars

\* main.py:88, 117: an exception that is not a ClientError (ServerError, a
\* transport error) matches no except clause and leaves generate_diagram
GD_OtherError ==
    /\ gpc = "stream"
    /\ gpc' = "raised"
    /\ retKind' = "raise"
    /\ report' = "exception"
    /\ outcomes' = Append(outcomes, "exception")
    /\ UNCHANGED <<outerVars, mode, apiKey, output_path, retries, attempt, image_data,
                   wait_time, lastNonEmpty, nRequests, backoffs, nWrites,
                   retPath, files>>
    /\ UNCHANGED batchVars

---------------------------------------------------------------------------
(* generate_all_workflows, main.py:174-220                                 *)

\* main.py:179-197: extract the workflows; with none, report it and return
\* [], else create the directory and start the loop
BatchStart ==
    /\ bpc = "start"
    /\ workflows' = TitlesOf(extract_workflows(input_text))
    /\ IF workflows' = <<>>
       THEN /\ bpc' = "done"
            /\ report' = "no workflows"
            /\ UNCHANGED <<i, dirs>>
       ELSE /\ bpc' = "loop"
            /\ i' = 1
            /\ dirs' = dirs \cup {PathStr(output_dir)}
            /\ UNCHANGED report
    /\ UNCHANGED <<outerVars, mode, apiKey, output_dir, generated, failed,
                   attempted, nDelays, gpc, output_path, retries, attempt,
                   image_data, wait_time, lastNonEmpty, nRequests, outcomes,
                   backoffs, nWrites, retKind, retPath, files>>

\* the frame of a generate_diagram call: its locals are gone once the caller
\* resumes, and fresh when a call starts
FrameReset ==
    /\ attempt' = 0
    /\ image_data' = NoneVal
    /\ wait_time' = 0
    /\ lastNonEmpty' = NoneVal

\* a call starts: fresh locals, nothing observed of it yet
CallReset ==
    /\ FrameReset
    /\ nRequests' = 0
    /\ outcomes' = <<>>
    /\ backoffs' = <<>>
    /\ nWrites' = 0
    /\ report' = "none"
    /\ retKind' = "pending"
    /\ retPath' = <<>>

\* main.py:199-204: generate_diagram(workflow['content'], str(filepath))
BatchCall ==
    /\ bpc = "loop"
    /\ bpc' = "calling"
    /\ attempted' = Append(attempted, i)
    /\ output_path' = Filepath(output_dir, i, workflows[i])
    /\ retries' = MAX_RETRIES
    /\ gpc' = "entry"
    /\ CallReset
    /\ UNCHANGED <<outerVars, mode, apiKey, workflows, output_dir, i, generated, failed,
                   nDelays, dirs, files>>

\* main.py:205-211: record the result
BatchRecord ==
    /\ bpc = "calling"
    /\ gpc = "returned"
    /\ IF retKind = "path"
       THEN /\ generated' = Append(generated, retPath)
            /\ UNCHANGED failed
       ELSE /\ failed' = Append(failed, workflows[i])
            /\ UNCHANGED generated
    /\ bpc' = IF i < Len(workflows) THEN "delay" ELSE "done"
    /\ gpc' = "idle"
    /\ FrameReset
    /\ UNCHANGED <<outerVars, mode, apiKey, workflows, output_dir, i, attempted, nDelays,
                   dirs, output_path, retries, nRequests, outcomes, backoffs, nWrites,
                   report, retKind, retPath, files>>

\* main.py:211-213, 199: time.sleep(REQUEST_DELAY), then the next workflow
BatchDelay ==
    /\ bpc = "delay"
    /\ nDelays' = nDelays + 1
    /\ i' = i + 1
    /\ bpc' = "loop"
    /\ UNCHANGED <<outerVars, mode, apiKey, workflows, output_dir, generated, failed,
                   attempted, dirs, gpc, output_path, retries, attempt,
                   image_data, wait_time, lastNonEmpty, nRequests, outcomes,
                   backoffs, nWrites, report, retKind, retPath, files>>

\* main.py:204: an exception of generate_diagram is not caught here
BatchPropagate ==
    /\ bpc = "calling"
    /\ gpc = "raised"
    /\ bpc' = "aborted"
    /\ gpc' = "idle"
    /\ FrameReset
    /\ UNCHANGED <<outerVars, mode, apiKey, workflows, output_dir, i, generated, failed,
                   attempted, nDelays, dirs, output_path, retries, nRequests, outcomes,
                   backoffs, nWrites, report, retKind, retPath, files>>

---------------------------------------------------------------------------
(* main, main.py:223-257                                                   *)

\* mutant of FileMissing: the existence check is skipped
FileMissing_Never(exists) == FALSE

\* main.py:242: not input_file.exists()
FileMissing(exists) == ~exists

\* main.py:242-257: exit with status 1 when the input file is missing, else
\* read it and call generate_all_workflows (--auto) or generate_diagram
Main_Start ==
    /\ mpc = "start"
    /\ IF FileMissing(input_exists)
       THEN /\ mpc' = "exited"
            /\ exit_code' = 1
            /\ report' = "input not found"
            /\ UNCHANGED <<bpc, gpc, output_path, retries>>
       ELSE /\ mpc' = "running"
            /\ UNCHANGED <<exit_code, report>>
            /\ IF mode = "batch"
               THEN /\ bpc' = "start"
                    /\ UNCHANGED <<gpc, output_path, retries>>
               ELSE /\ gpc' = "entry"
                    /\ output_path' = Stem(input_file) \o DiagramSuffix
                    /\ retries' = MAX_RETRIES
                    /\ UNCHANGED bpc
    /\ UNCHANGED <<input_file, input_exists, input_text, fnVars, mode, apiKey,
                   workflows, output_dir, i, generated, failed, attempted,
                   nDelays, dirs, attempt, image_data, wait_time, lastNonEmpty,
                   nRequests, outcomes, backoffs, nWrites, retKind, retPath,
                   files>>

\* what the end of main leaves alone
MainEndFrame ==
    /\ gpc' = "idle"
    /\ FrameReset
    /\ UNCHANGED <<input_file, input_exists, input_text, fnVars, mode, apiKey,
                   output_path, retries, nRequests, outcomes, backoffs, nWrites,
                   report, retKind, retPath, files>>
    /\ UNCHANGED batchVars

\* main.py:251-257: the call returned, main runs to its end: exit status 0
Main_Exit ==
    /\ mpc = "running"
    /\ \/ mode = "batch" /\ bpc = "done"
       \/ mode = "single" /\ gpc = "returned"
    /\ mpc' = "exited"
    /\ exit_code' = 0
    /\ MainEndFrame

\* main.py:251, 257: an exception of the call is caught nowhere: the
\* interpreter prints the traceback and exits with status 1
Main_Uncaught ==
    /\ mpc = "running"
    /\ \/ mode = "batch" /\ bpc = "aborted"
       \/ mode = "single" /\ gpc = "raised"
    /\ mpc' = "exited"
    /\ exit_code' = 1
    /\ MainEndFrame

---------------------------------------------------------------------------

Next ==
    \/ Main_Start
    \/ Main_Exit
    \/ Main_Uncaught
    \/ GD_Entry
    \/ GD_LoopExit
    \/ GD_Request
    \/ GD_Chunk
    \/ GD_Part
    \/ GD_PartsEnd
    \/ GD_StreamEnd
    \/ GD_RateLimit
    \/ GD_Sleep
    \/ GD_ClientError
    \/ GD_OtherError
    \/ BatchStart
    \/ BatchCall
    \/ BatchRecord
    \/ BatchDelay
    \/ BatchPropagate

Spec == Init /\ [][Next]_vars

---------------------------------------------------------------------------
(* The pure functions applied on their own, over bounded inputs:           *)
(* slugify, get_image_extension, extract_workflows and the computation of  *)
(* wait_time from str(e).                                                  *)

MaxTitleTokens == 4
MaxTextTokens == 4
MaxBlocks == 3

RECURSIVE Flatten(_)
Flatten(ss) == IF ss = <<>> THEN <<>> ELSE Head(ss) \o Flatten(Tail(ss))

\* titles given to slugify: built from prefixes in both cases, a word, a
\* separator with a digit, punctuation and blanks
SlugTokens == {<<"H", "o", "w", " ", "t", "o", " ">>,
               <<"h", "O", "W", " ", "T", "O", " ">>,
               <<"H", "o", "w">>,
               <<"A", "b">>,
               <<"_", "9">>,
               <<"!">>,
               <<" ", "\t">>}

ExampleTitle == <<"H", "o", "w", " ", "t", "o", " ", "R", "e", "s", "e", "t", " ", "a", " ", "P", "a", "s", "s", "w", "o", "r", "d">>

SlugInputs ==
    {Flatten(ts) : ts \in SeqsUpTo(SlugTokens, MaxTitleTokens)} \cup {ExampleTitle}

\* str(e) of a rate-limit error: built from the key, the hint in two cases,
\* numbers and other text
HintTokens == {RetryDelayKey,
               RetryInText,
               <<"R", "e", "t", "r", "y", " ", "I", "n", " ">>,
               <<"7">>,
               <<"1", "2">>,
               <<"s", ".">>,
               <<" ">>}

HintInputs == {Flatten(ts) : ts \in SeqsUpTo(HintTokens, MaxTextTokens)}

\* byte sequences given to get_image_extension: every prefix of a sample of
\* each format, as it is and with one byte replaced
SniffSamples == {PngSig \o <<0>>,
                 JpgData,
                 RiffSig \o <<1, 2, 3, 4>> \o WebpSig \o <<0>>,
                 Gif87 \o <<0>>,
                 Gif89,
                 <<0, 0>>}

Poke(d, k, b) == [n \in DOMAIN d |-> IF n = k THEN b ELSE d[n]]

SniffInputs ==
    {Poke(Slice(d, 0, n), k, b) :
        d \in SniffSamples, n \in 0..12, k \in 0..12, b \in {0, 255}}

\* documents given to extract_workflows: sequences of blocks, a block being
\* a "How to" section (its heading plain or in emphasis markers, its body a
\* list of lines), another section, or a horizontal rule
HowToBlock(title, emph, body) ==
    [kind |-> "howto", title |-> title, emph |-> emph, body |-> body]

Blocks == {HowToBlock(<<"H", "o", "w", " ", "t", "o", " ", "A">>, FALSE,
                      <<<<"x">>>>),
           HowToBlock(<<"h", "o", "w", " ", "T", "O", " ", "b">>, TRUE,
                      <<<<>>, <<"y", " ", "z">>, <<>>>>),
           HowToBlock(<<"H", "o", "w", " ", "t", "o", " ", "C">>, FALSE, <<>>),
           HowToBlock(<<"H", "o", "w", " ", "t", "o", " ", "D">>, TRUE,
                      <<<<>>>>),
           [kind |-> "other"],
           [kind |-> "rule"]}

RECURSIVE RenderLines(_)
RenderLines(ls) ==
    IF ls = <<>> THEN <<>> ELSE Head(ls) \o <<"\n">> \o RenderLines(Tail(ls))

RenderBlock(b) ==
    IF b.kind = "howto"
    THEN <<"#", "#", "#", " ">>
            \o (IF b.emph THEN <<"*", "*">> \o b.title \o <<"*", "*">>
                ELSE b.title)
            \o <<"\n">> \o RenderLines(b.body)
    ELSE IF b.kind = "other" THEN NotesDoc
    ELSE <<"-", "-", "-", "\n">>

RECURSIVE RenderDoc(_)
RenderDoc(bs) ==
    IF bs = <<>> THEN <<>> ELSE RenderBlock(Head(bs)) \o RenderDoc(Tail(bs))

DocInputs ==
    {[blocks |-> bs, text |-> RenderDoc(bs)] : bs \in SeqsUpTo(Blocks, MaxBlocks)}

\* no run of the program
ProgramOff ==
    /\ mode = "none"
    /\ apiKey = FALSE
    /\ input_file = <<>>
    /\ input_exists = FALSE
    /\ input_text = <<>>
    /\ mpc = "none"
    /\ exit_code = -1
    /\ output_dir = <<>>
    /\ bpc = "none"
    /\ BatchFresh
    /\ dirs = {}
    /\ gpc = "idle"
    /\ output_path = <<>>
    /\ retries = 0
    /\ CallFresh
    /\ files = <<>>

FnInit ==
    /\ ProgramOff
    /\ fnPc = "call"
    /\ fnRes = <<>>
    /\ \/ fn = "slugify" /\ fnArg \in SlugInputs
       \/ fn = "get_image_extension" /\ fnArg \in SniffInputs
       \/ fn = "extract_workflows" /\ fnArg \in DocInputs
       \/ fn = "wait_time" /\ fnArg \in HintInputs

\* the function returns
FnReturn(res) ==
    /\ fnPc = "call"
    /\ fnRes' = res
    /\ fnPc' = "ret"
    /\ UNCHANGED <<fn, fnArg, input_file, input_exists, input_text, mpc,
                   exit_code, mode, apiKey, gpc, output_path, retries, attempt,
                   image_data, wait_time, lastNonEmpty, nRequests, outcomes,
                   backoffs, nWrites, report, retKind, retPath, files>>
    /\ UNCHANGED batchVars

Apply_slugify ==
    fn = "slugify" /\ FnReturn(slugify(fnArg))

Apply_get_image_extension ==
    fn = "get_image_extension" /\ FnReturn(get_image_extension(fnArg))

Apply_extract_workflows ==
    fn = "extract_workflows" /\ FnReturn(extract_workflows(fnArg.text))

\* main.py:120-125
Apply_wait_time ==
    fn = "wait_time" /\ FnReturn(WaitTime(fnArg))

FnNext ==
    \/ Apply_slugify
    \/ Apply_get_image_extension
    \/ Apply_extract_workflows
    \/ Apply_wait_time

FnSpec == FnInit /\ [][FnNext]_vars

---------------------------------------------------------------------------
(* Properties of generate_diagram's retry loop.                            *)

Last(s) == s[Len(s)]

AllRateLimited(o) == \A k \in DOMAIN o : o[k] = "rate limit"

\* the current call is over and its frame still there
CallReturned == gpc = "returned"

\* C1: with a retry budget of 3, when attempts 1 and 2 are rate-limited the
\* call goes on to attempt 3, and when that attempt obtains a non-empty
\* payload the call returns the path of the file it wrote the payload to,
\* after exactly two backoff sleeps and three requests.
C1_RetryThenSuccess ==
    retries = 3 =>
        /\ outcomes \in {<<"rate limit">>, <<"rate limit", "rate limit">>}
              => /\ retKind = "pending"
                 /\ Len(backoffs) \in {Len(outcomes) - 1, Len(outcomes)}
        /\ (/\ outcomes = <<"rate limit", "rate limit", "completed">>
            /\ CallReturned
            /\ Truthy(image_data))
              => /\ retKind = "path"
                 /\ retPath \in DOMAIN files
                 /\ files[retPath] = image_data
                 /\ Len(backoffs) = 2
                 /\ nRequests = 3
                 /\ nWrites = 1

C1_Witness ==
    /\ retries = 3
    /\ outcomes = <<"rate limit", "rate limit", "completed">>
    /\ CallReturned
    /\ Truthy(image_data)
    /\ Len(backoffs) = 2
    /\ retKind = "path"

\* C2: for every retry budget R >= 1, while every attempt so far was
\* rate-limited the call goes on until R attempts are made; after the R-th it
\* has returned None, reported the final failure, issued exactly R requests,
\* slept R - 1 times and written no file.
C2_RateLimitExhausted ==
    (retries >= 1 /\ outcomes # <<>> /\ AllRateLimited(outcomes)) =>
        /\ Len(outcomes) <= retries
        /\ Len(outcomes) < retries => retKind = "pending"
        /\ Len(outcomes) = retries
              => /\ gpc \in {"returned", "idle"}
                 /\ retKind = "none"
                 /\ report = "failed after retries"
                 /\ nRequests = retries
                 /\ Len(backoffs) = retries - 1
                 /\ nWrites = 0
                 /\ mode = "call" => DOMAIN files = {}

C2_Witness ==
    /\ mode = "call"
    /\ retries = MaxRetries
    /\ Len(outcomes) = retries
    /\ AllRateLimited(outcomes)
    /\ retKind = "none"
    /\ report = "failed after retries"

\* C3: an attempt that ends with a failure signal other than a rate limit (a
\* ClientError with another code, or any other exception of the backend call)
\* is not retried and not slept after; the error is reported and the call
\* returns None instead of raising.
C3_OtherErrorsReturnNone ==
    (outcomes # <<>> /\ Last(outcomes) \in {"client error", "exception"}) =>
        /\ retKind = "none"
        /\ report = "api error"
        /\ gpc \in {"returned", "idle"}
        /\ nRequests = Len(outcomes)
        /\ Len(backoffs) = Len(outcomes) - 1

\* C9: when a response stream completes and no non-empty payload was
\* observed in it, the call reports "no image" and returns None on that
\* attempt, with budget left or not, and without writing a file; and once a
\* stream has completed the call is over: no request and no sleep follow.
C9_NoImageStops ==
    (outcomes # <<>> /\ Last(outcomes) = "completed") =>
        /\ gpc \in {"returned", "idle"}
        /\ nRequests = Len(outcomes)
        /\ Len(backoffs) = Len(outcomes) - 1
        /\ (CallReturned /\ lastNonEmpty = NoneVal)
              => /\ retKind = "none"
                 /\ report = "no image"
                 /\ nWrites = 0
                 /\ mode = "call" => DOMAIN files = {}

\* an empty stream on the first attempt of a budget of several, and a stream
\* of empty payloads only after a rate-limited attempt
C9_Witness ==
    /\ CallReturned
    /\ outcomes # <<>>
    /\ Last(outcomes) = "completed"
    /\ lastNonEmpty = NoneVal
    /\ image_data = <<>>
    /\ Len(outcomes) = 2
    /\ attempt < retries - 1
    /\ retKind = "none"

\* C10: the image a call persists is the last non-empty payload fragment of
\* the stream; an empty fragment after it does not replace it, and the call
\* ends without an image only when the stream held no non-empty fragment.
C10_LastNonEmptyPersisted ==
    (CallReturned /\ outcomes # <<>> /\ Last(outcomes) = "completed") =>
        IF lastNonEmpty # NoneVal
        THEN /\ retKind = "path"
             /\ retPath \in DOMAIN files
             /\ files[retPath] = lastNonEmpty
        ELSE retKind = "none"

---------------------------------------------------------------------------
(* Properties of the output path.                                          *)

\* path with the extension of its last component, if it has one, replaced
ReplaceExtension(path, ext) ==
    LET slash == LastIndexOf(path, "/")
        dot == LastIndexOf(path, ".")
    IN  IF dot > slash + 1 THEN SubSeq(path, 1, dot - 1) \o ext ELSE path \o ext

\* C5: a call that obtains a non-empty payload writes it to the requested
\* stem with any extension already present replaced by the sniffed one, and
\* creates no file under the requested name itself.
C5_ExtensionReplaced ==
    (CallReturned /\ outcomes # <<>> /\ Last(outcomes) = "completed"
        /\ Truthy(image_data)) =>
        /\ retKind = "path"
        /\ retPath = ReplaceExtension(output_path, get_image_extension(image_data))
        /\ retPath \in DOMAIN files
        /\ files[retPath] = image_data
        /\ output_path # retPath => output_path \notin DOMAIN files

\* C6: in a batch, a successful generation for workflow i writes its file at
\* <output-dir>/<NN>_<slug>.<ext>, whatever the directory name.
C6_BatchOutputPath ==
    (mode = "batch" /\ bpc = "calling" /\ CallReturned /\ retKind = "path") =>
        /\ retPath \in DOMAIN files
        /\ retPath = output_dir \o <<"/">> \o Pad2(i) \o <<"_">>
                        \o slugify(workflows[i])
                        \o get_image_extension(files[retPath])

\* C7: no two workflows of a batch are written to the same final path.
C7_NoOverwrite ==
    \A a, b \in DOMAIN generated : a # b => generated[a] # generated[b]

---------------------------------------------------------------------------
(* Properties of the batch loop.                                           *)

BatchOver == mode = "batch" /\ bpc \in {"done", "aborted"}

\* C4: no failure of one workflow's generation aborts the batch: with the
\* credential present, a batch ends having attempted every workflow once, in
\* source order, each recorded as a success or as a failure.
C4_BatchNeverAborts ==
    (BatchOver /\ apiKey) =>
        /\ bpc = "done"
        /\ attempted = [k \in 1..Len(workflows) |-> k]
        /\ Len(generated) + Len(failed) = Len(workflows)

\* C8: over N >= 1 workflows exactly N - 1 inter-request delays are
\* performed, one after each attempt but the last, however the attempt
\* ended; the request for workflow i + 1 is not issued before delay i is over.
C8_DelaysBetweenWorkflows ==
    (mode = "batch" /\ apiKey /\ workflows # <<>>) =>
        /\ bpc \in {"loop", "calling", "delay"} => nDelays = i - 1
        /\ bpc = "calling" => Len(attempted) = nDelays + 1
        /\ BatchOver => nDelays = Len(workflows) - 1

---------------------------------------------------------------------------
(* Properties of the backoff duration.                                     *)

FnReturned(f) == fn = f /\ fnPc = "ret"

\* 1-based positions of s where "retry in " (any case) and a digit stand
HintsIn(s) ==
    {k \in 1..Len(s) :
        /\ k + 9 <= Len(s)
        /\ Lower(SubSeq(s, k, k + 8)) = <<"r", "e", "t", "r", "y", " ", "i", "n", " ">>
        /\ IsDigit(s[k + 9])}

\* the decimal number that starts at 1-based position k of s
RECURSIVE NumberAt(_, _, _)
NumberAt(s, k, n) ==
    IF k <= Len(s) /\ IsDigit(s[k])
    THEN NumberAt(s, k + 1, 10 * n + DigitValue(s[k]))
    ELSE n

\* the N of the first "retry in N" of s
HintedSeconds(s) ==
    LET k == CHOOSE m \in HintsIn(s) : \A n \in HintsIn(s) : m <= n
    IN  NumberAt(s, k + 9, 0)

\* C11 as stated: on a rate-limit failure the wait is N + 5 seconds whenever
\* the error text contains "retry in N" (any case), whatever else it contains
\* or lacks, and 60 seconds whenever it does not.
C11_WaitFromHint ==
    FnReturned("wait_time") =>
        fnRes = IF HintsIn(fnArg) # {} THEN HintedSeconds(fnArg) + 5 ELSE 60

\* C11, amended: the wait is N + 5 seconds whenever the error text contains
\* both the key "retryDelay" and a "retry in N" (any case), N being the first
\* such number, and 60 seconds for every other error text.
C11_WaitFromKeyedHint ==
    FnReturned("wait_time") =>
        fnRes = IF Contains(fnArg, RetryDelayKey) /\ HintsIn(fnArg) # {}
                THEN HintedSeconds(fnArg) + 5
                ELSE 60

\* a text with the key and the hint in capitals yields 12 + 5
C11_Witness ==
    /\ FnReturned("wait_time")
    /\ Contains(fnArg, RetryDelayKey)
    /\ Contains(fnArg, <<"R", "e", "t", "r", "y", " ", "I", "n", " ", "1", "2">>)
    /\ fnRes = 17

---------------------------------------------------------------------------
(* Properties of extract_workflows.                                        *)

\* a block has a line that is not blank
HasBody(b) == \E k \in DOMAIN b.body : StripSpace(b.body[k]) # <<>>

IsHowTo(b) == b.kind = "howto"

\* the workflows of a document, block by block: one for every "How to"
\* section with a body, its content the title, a blank line and the body
\* without the whitespace around it
RECURSIVE SectionWorkflows(_)
SectionWorkflows(bs) ==
    IF bs = <<>> THEN <<>>
    ELSE LET b == Head(bs)
         IN  (IF IsHowTo(b) /\ HasBody(b)
              THEN <<[title |-> b.title,
                      content |-> b.title \o <<"\n", "\n">>
                                     \o StripSpace(RenderLines(b.body))]>>
              ELSE <<>>) \o SectionWorkflows(Tail(bs))

\* a "How to" heading without a body directly before another "How to" heading
BackToBack(bs) ==
    \E k \in 1..(Len(bs) - 1) :
        IsHowTo(bs[k]) /\ ~HasBody(bs[k]) /\ IsHowTo(bs[k + 1])

\* C12: in a document of "How to" sections where headings stand back to
\* back, a heading without a body yields no workflow and absorbs nothing of
\* what follows, and every section with a body is returned under its own
\* title.
C12_BodylessHeadingExcluded ==
    (/\ FnReturned("extract_workflows")
     /\ \A k \in DOMAIN fnArg.blocks : IsHowTo(fnArg.blocks[k])
     /\ BackToBack(fnArg.blocks))
        => fnRes = SectionWorkflows(fnArg.blocks)

\* C13: for every document whose "How to" sections all have a body, N of
\* them, the result has exactly N entries, in source order, each with its
\* section's title and content title, blank line, stripped body.
C13_WellFormedSections ==
    (/\ FnReturned("extract_workflows")
     /\ \A k \in DOMAIN fnArg.blocks :
           IsHowTo(fnArg.blocks[k]) => HasBody(fnArg.blocks[k]))
        => /\ Len(fnRes) = Cardinality({k \in DOMAIN fnArg.blocks :
                                            IsHowTo(fnArg.blocks[k])})
           /\ fnRes = SectionWorkflows(fnArg.blocks)

\* two sections with bodies, a horizontal rule between them
C13_Witness ==
    /\ FnReturned("extract_workflows")
    /\ Len(fnArg.blocks) = 3
    /\ IsHowTo(fnArg.blocks[1]) /\ HasBody(fnArg.blocks[1])
    /\ fnArg.blocks[2].kind = "rule"
    /\ IsHowTo(fnArg.blocks[3]) /\ HasBody(fnArg.blocks[3])
    /\ fnArg.blocks[1] # fnArg.blocks[3]
    /\ Len(fnRes) = 2

---------------------------------------------------------------------------
(* Properties of get_image_extension.                                      *)

StartsWith(d, sig) == Len(d) >= Len(sig) /\ SubSeq(d, 1, Len(sig)) = sig

\* C16: for every byte sequence, also the empty and the truncated ones, the
\* result is the PNG, JPEG, WEBP or GIF extension when the sequence starts
\* with that format's signature, and the PNG default otherwise.
C16_ExtensionBySignature ==
    FnReturned("get_image_extension") =>
        fnRes = IF StartsWith(fnArg, PngSig) THEN DotPng
                ELSE IF StartsWith(fnArg, JpgSig) THEN DotJpg
                ELSE IF /\ StartsWith(fnArg, RiffSig)
                        /\ Len(fnArg) >= 12
                        /\ SubSeq(fnArg, 9, 12) = WebpSig THEN DotWebp
                ELSE IF StartsWith(fnArg, Gif87) \/ StartsWith(fnArg, Gif89)
                     THEN DotGif
                ELSE DotPng

\* a RIFF file cut inside its WEBP tag falls to the default
C16_Witness ==
    /\ FnReturned("get_image_extension")
    /\ StartsWith(fnArg, RiffSig)
    /\ Len(fnArg) = 11
    /\ fnRes = DotPng

---------------------------------------------------------------------------
(* Properties of slugify.                                                  *)

WellFormedSlug(r) ==
    /\ \A k \in DOMAIN r : IsSlugChar(r[k]) \/ r[k] = "_"
    /\ r # <<>> => r[1] # "_" /\ r[Len(r)] # "_"
    /\ \A k \in 1..(Len(r) - 1) : ~(r[k] = "_" /\ r[k + 1] = "_")

\* the maximal runs of lowercase alphanumerics of s, cur being the run so far
RECURSIVE WordsOf(_, _)
WordsOf(s, cur) ==
    IF s = <<>> THEN (IF cur = <<>> THEN <<>> ELSE <<cur>>)
    ELSE IF IsSlugChar(Head(s)) THEN WordsOf(Tail(s), Append(cur, Head(s)))
    ELSE (IF cur = <<>> THEN <<>> ELSE <<cur>>) \o WordsOf(Tail(s), <<>>)

RECURSIVE JoinWords(_)
JoinWords(ws) ==
    IF ws = <<>> THEN <<>>
    ELSE IF Len(ws) = 1 THEN ws[1]
    ELSE ws[1] \o <<"_">> \o JoinWords(Tail(ws))

HasHowToPrefix(t) ==
    Len(t) >= 7 /\ Lower(SubSeq(t, 1, 7)) = <<"h", "o", "w", " ", "t", "o", " ">>

\* C17: for every title the slug consists of lowercase alphanumerics and
\* single internal underscores only; a leading "how to " in any case is
\* removed, the slug being the words of the rest joined by underscores; the
\* slug of "How to Reset a Password" is reset_a_password.
C17_SlugShape ==
    FnReturned("slugify") =>
        /\ WellFormedSlug(fnRes)
        /\ HasHowToPrefix(fnArg) =>
              fnRes = JoinWords(WordsOf(Lower(SubSeq(fnArg, 8, Len(fnArg))), <<>>))
        /\ fnArg = ExampleTitle =>
              fnRes = <<"r", "e", "s", "e", "t", "_", "a", "_", "p", "a", "s", "s", "w", "o", "r", "d">>

\* a prefix in capitals before punctuation, a word and a separator
C17_Witness ==
    /\ FnReturned("slugify")
    /\ HasHowToPrefix(fnArg)
    /\ fnArg[1] = "h"
    /\ Contains(fnArg, <<"!", "A", "b", "_", "9">>)
    /\ fnRes = <<"a", "b", "_", "9">>

---------------------------------------------------------------------------
(* Properties of a run of main.                                            *)

\* "###" with "how to" in any case somewhere after it
MentionsHowToHeading(t) ==
    \E p \in 1..(Len(t) - 2) :
        /\ SubSeq(t, p, p + 2) = <<"#", "#", "#">>
        /\ Contains(Lower(SubSeq(t, p, Len(t))), <<"h", "o", "w", " ", "t", "o">>)

\* C14: for a document without a "How to" heading extract_workflows returns
\* the empty sequence, and the batch reports that there are no workflows and
\* returns an empty result: no error, no request, no sleep, no file.
C14_NoHeadingsNoWork ==
    (mode = "batch" /\ ~MentionsHowToHeading(input_text)) =>
        /\ extract_workflows(input_text) = <<>>
        /\ workflows = <<>> /\ generated = <<>> /\ failed = <<>>
        /\ attempted = <<>>
        /\ bpc \in {"none", "start", "done"}
        /\ bpc = "done" => report = "no workflows"
        /\ gpc = "idle" /\ retKind = "pending"
        /\ nRequests = 0 /\ backoffs = <<>> /\ nDelays = 0
        /\ nWrites = 0 /\ files = <<>> /\ dirs = {}
        /\ (mpc = "exited" /\ input_exists) => exit_code = 0

\* the batch is over for a document whose only heading has two hashes
C14_Witness ==
    /\ mode = "batch"
    /\ input_text = TwoHashDoc
    /\ bpc = "done"
    /\ report = "no workflows"
    /\ mpc = "exited"

---------------------------------------------------------------------------
(* Properties of the frame of a generate_diagram call.                     *)

\* C18: for every budget R >= 0 a call issues at most R requests and sleeps
\* at most max(R - 1, 0) times; sleep k follows the rate-limited attempt k,
\* which is not the last of the budget; with R = 0 the call returns None
\* without a request.
C18_BoundedAttempts ==
    /\ nRequests <= retries
    /\ Len(outcomes) <= nRequests
    /\ Len(backoffs) <= (IF retries >= 1 THEN retries - 1 ELSE 0)
    /\ Len(backoffs) <= Len(outcomes)
    /\ \A k \in DOMAIN backoffs : outcomes[k] = "rate limit" /\ k < retries
    /\ gpc = "sleep" =>
          /\ outcomes # <<>>
          /\ Last(outcomes) = "rate limit"
          /\ Len(outcomes) < retries
          /\ Len(backoffs) = Len(outcomes) - 1
    /\ (retries = 0 /\ CallReturned) =>
          /\ nRequests = 0
          /\ backoffs = <<>>
          /\ retKind = "none"

\* a call with a budget of 0 has returned
C18_Witness ==
    /\ mode = "call"
    /\ retries = 0
    /\ CallReturned
    /\ retKind = "none"
    /\ nRequests = 0

\* C19: a call writes at most one file; it returns a path if and only if it
\* wrote the payload to exactly that path; a call that returns None has
\* created no file, whatever its earlier attempts were.
C19_OneFileIffPath ==
    /\ nWrites <= 1
    /\ retKind = "path" <=> nWrites = 1
    /\ retKind = "path" => retPath \in DOMAIN files
    /\ (CallReturned /\ retKind = "path") => files[retPath] = image_data
    /\ mode \in {"call", "single"} =>
          DOMAIN files = (IF retKind = "path" THEN {retPath} ELSE {})
    /\ mode = "batch" =>
          DOMAIN files = Range(generated)
                            \cup (IF retKind = "path" THEN {retPath} ELSE {})

\* None after two rate-limited attempts that had received a payload
C19_Witness ==
    /\ mode = "call"
    /\ CallReturned
    /\ retKind = "none"
    /\ outcomes = <<"rate limit", "rate limit">>
    /\ lastNonEmpty # NoneVal
    /\ files = <<>>

\* C20: without the credential generate_diagram raises the configuration
\* error before any request, any sleep and any file, in a single-shot run
\* and in a batch.
C20_CredentialCheckedFirst ==
    ~apiKey =>
        /\ nRequests = 0 /\ outcomes = <<>>
        /\ backoffs = <<>> /\ nDelays = 0
        /\ nWrites = 0 /\ files = <<>>
        /\ gpc \in {"idle", "entry", "raised"}
        /\ retKind \in {"pending", "raise"}
        /\ retKind = "raise" => report = "ValueError"
        /\ Len(attempted) <= 1
        /\ generated = <<>> /\ failed = <<>>

\* a batch aborted by the configuration error at its first workflow
C20_Witness ==
    /\ mode = "batch"
    /\ ~apiKey
    /\ bpc = "aborted"
    /\ attempted = <<1>>
    /\ retKind = "raise"
    /\ report = "ValueError"

====
